---- MODULE Spec2Model ----
(***************************************************************************)
(* Model of the fireplace GPIO control service: the GpioController         *)
(* (src/src/gpio.rs), the HTTP handlers (src/src/api/handlers.rs), the     *)
(* error mapping (src/src/error.rs), the name resolver (src/src/config.rs) *)
(* and the HomeKit callbacks (src/src/hap_server.rs), sharing one          *)
(* controller behind one tokio Mutex (src/src/state.rs).                   *)
(*                                                                         *)
(* Text is modelled as a sequence of one-character strings so that case    *)
(* conversion and trimming are computed, not assumed.                      *)
(***************************************************************************)
EXTENDS Integers, Sequences, FiniteSets, TLC

\* ------------------------------------------------------------------------
\* Bounds of the model
\* ------------------------------------------------------------------------

\* Number of concurrently running tasks (HTTP handler tasks, spawned HomeKit
\* tasks, direct controller callers).
NumTasks == 2

\* Largest pin number over which the translation table is compared.
MaxPinNumber == 40

\* Longest standard output of a read command that is tried
MaxOutputLen == 2

Tasks == 1..NumTasks

\* Pin identifiers that requests carry: the default fireplace and fan pins,
\* a physical header pin with a table entry, and the BCM line it maps to.
Pins == {17, 27, 37, 26}

\* The pins of the concurrent scenarios: the two configured appliances
ConcPins == {17, 27}

\* The pins of the scenarios about appliance names: those of Config::default
NamePins == {17, 27, 22, 23}

\* The pins of the scenarios that follow two pin identifiers of one line
AliasPins == {17, 37, 26}

\* ------------------------------------------------------------------------
\* Text helpers
\* ------------------------------------------------------------------------

LowerLetters == <<"a","b","c","d","e","f","g","h","i","j","k","l","m",
                  "n","o","p","q","r","s","t","u","v","w","x","y","z">>

UpperLetters == <<"A","B","C","D","E","F","G","H","I","J","K","L","M",
                  "N","O","P","Q","R","S","T","U","V","W","X","Y","Z">>

LetterIndex(table, c) ==
    IF \E k \in 1..Len(table) : table[k] = c
    THEN CHOOSE k \in 1..Len(table) : table[k] = c
    ELSE 0

\* str::to_lowercase
to_lowercase(s) ==
    [i \in 1..Len(s) |->
        IF LetterIndex(UpperLetters, s[i]) # 0
        THEN LowerLetters[LetterIndex(UpperLetters, s[i])]
        ELSE s[i]]

\* str::to_uppercase
to_uppercase(s) ==
    [i \in 1..Len(s) |->
        IF LetterIndex(LowerLetters, s[i]) # 0
        THEN UpperLetters[LetterIndex(LowerLetters, s[i])]
        ELSE s[i]]

Whitespace == {" ", "\n", "\t", "\r"}

RECURSIVE TrimStart(_)
TrimStart(s) ==
    IF s # <<>> /\ Head(s) \in Whitespace THEN TrimStart(Tail(s)) ELSE s

RECURSIVE TrimEnd(_)
TrimEnd(s) ==
    IF s # <<>> /\ s[Len(s)] \in Whitespace
    THEN TrimEnd(SubSeq(s, 1, Len(s) - 1))
    ELSE s

\* str::trim
trim(s) == TrimEnd(TrimStart(s))

S_toggle    == <<"t","o","g","g","l","e">>
S_Toggle    == <<"T","o","g","g","l","e">>
S_pulse     == <<"p","u","l","s","e">>
S_ON        == <<"O","N">>
S_OFF       == <<"O","F","F">>
S_Off       == <<"O","f","f">>
S_dim       == <<"d","i","m">>
S_fireplace == <<"f","i","r","e","p","l","a","c","e">>
S_fan       == <<"f","a","n">>
S_Fan       == <<"F","a","n">>
S_lights    == <<"l","i","g","h","t","s">>

\* Inputs of the requests
CmdTypes   == {S_Toggle, S_pulse}
CmdActions == {S_ON, S_Off, S_dim}
Devices    == {S_fireplace, S_Fan, S_lights}

\* ------------------------------------------------------------------------
\* Pure functions of the program
\* ------------------------------------------------------------------------

\* Option<T> is a set with at most one element.
None == {}
Some(v) == {v}

\* GpioController::physical_to_bcm, a Result<u32>
physical_to_bcm_swapped(physical_pin) ==
    [ok  |-> TRUE,
     val |-> CASE physical_pin = 37 -> 20
               [] physical_pin = 38 -> 26
               [] physical_pin = 22 -> 25
               [] physical_pin = 23 -> 24
               [] OTHER -> physical_pin]

physical_to_bcm(physical_pin) ==
    [ok  |-> TRUE,
     val |-> CASE physical_pin = 37 -> 26
               [] physical_pin = 38 -> 20
               [] physical_pin = 22 -> 25
               [] physical_pin = 23 -> 24
               [] OTHER -> physical_pin]

\* Config::get_pin_name
get_pin_name(cfg, pin) ==
    IF pin = cfg.fireplace THEN Some("fireplace")
    ELSE IF pin = cfg.fireplace_fan THEN Some("fireplace_fan")
    ELSE IF cfg.lights # None
         THEN (IF pin \in cfg.lights THEN Some("lights") ELSE None)
    ELSE IF cfg.secondary_device # None
         THEN (IF pin \in cfg.secondary_device
               THEN Some("secondary_device") ELSE None)
    ELSE None

\* set_pin: let state = if high { PinState::High } else { PinState::Low }
PinStateOf_inverted(high) == IF high THEN "Low" ELSE "High"

PinStateOf(high) == IF high THEN "High" ELSE "Low"

\* write_gpio_pin: let value = if high { "1" } else { "0" }
WriteValue(high) == IF high THEN 1 ELSE 0

\* set_pin(pin, logical_on, active_low), as the HomeKit callbacks call it:
\* physical_high = active_low ? !logical_on : logical_on
PhysicalHigh(logical_on, active_low) ==
    IF active_low THEN ~logical_on ELSE logical_on

\* on_update: if current != new { tokio::spawn(...) }
Changed_always(current, new) == TRUE

Changed(current, new) == current # new

\* What `gpio -g read <bcm>` prints for a line level
ReadStdout(level) == IF level = 1 THEN <<"1", "\n">> ELSE <<"0", "\n">>

\* read_gpio_pin: if state_str == "1" { High } else { Low }
ParseRead_untrimmed(stdout) == IF stdout = <<"1">> THEN "High" ELSE "Low"

ParseRead(stdout) == IF trim(stdout) = <<"1">> THEN "High" ELSE "Low"

\* Characters a read command may print, and the outputs that are tried
OutputChars == {"0", "1", "2", "+", "x", " ", "\n"}

Outputs == UNION {[1..n -> OutputChars] : n \in 0..MaxOutputLen}

Digits == <<"0", "1", "2", "3", "4", "5", "6", "7", "8", "9">>

DigitValue(c) == LetterIndex(Digits, c) - 1

RECURSIVE DecimalValue(_)
DecimalValue(ds) ==
    IF ds = <<>> THEN 0
    ELSE 10 * DecimalValue(SubSeq(ds, 1, Len(ds) - 1)) + DigitValue(ds[Len(ds)])

\* str::parse::<u32>: an optional + sign, then one or more decimal digits;
\* an Option here. Up to nine digits always fit in 32 bits; longer digit
\* strings, where the limit matters, are not among the outputs tried.
parse_u32(s) ==
    LET ds == IF s # <<>> /\ Head(s) = "+" THEN Tail(s) ELSE s
    IN  IF /\ ds # <<>>
           /\ Len(ds) <= 9
           /\ \A i \in 1..Len(ds) : LetterIndex(Digits, ds[i]) # 0
        THEN Some(DecimalValue(ds))
        ELSE None

\* gpio_shell::read_pin: state_str.parse::<u32>().unwrap_or(0) != 0
shell_level_exact(stdout) == trim(stdout) = <<"1">>

shell_level(stdout) ==
    LET parsed == parse_u32(trim(stdout))
        value  == IF parsed = None THEN 0 ELSE CHOOSE v \in parsed : TRUE
    IN  value # 0

\* ApiError::into_response: the status code of each error kind
StatusOf(err) ==
    CASE err = "InvalidCommand" -> 400
      [] err = "InvalidAction"  -> 400
      [] err = "InvalidPin"     -> 400
      [] err = "ConfigError"    -> 500
      [] err = "GpioError"      -> 500
      [] err = "InternalError"  -> 500


\* ------------------------------------------------------------------------
\* State
\* ------------------------------------------------------------------------

VARIABLES
    pin_states,   \* GpioController.pin_states: HashMap<u32, PinState>
    lock,         \* the tokio Mutex around the controller: 0 free, else holder
    task,         \* per task: its request, position, locals and response
    line,         \* level of each BCM line, as the gpio tool drives and reads it
    config,       \* the immutable configuration (Arc<Config>)
    hapOn,        \* current value of each HomeKit accessory's On characteristic
    performed,    \* history: pins on which a set_pin/toggle_pin call has returned
    succeeded,    \* history: pins with a successful set_pin or toggle_pin
    readOrSet,    \* history: pins with a successful set_pin or successful read
    prevCall      \* history: the last call whose caller has finished

vars == <<pin_states, lock, task, line, config, hapOn,
          performed, succeeded, readOrSet, prevCall>>

history == <<performed, succeeded, readOrSet, prevCall>>

Accessories == {"fireplace", "fan"}

\* BCM lines that a set of pins reaches
LinesOf(pins) == {physical_to_bcm(p).val : p \in pins}

NoCmd    == [name |-> "none", pin |-> 0, value |-> 0, outcome |-> "none"]
NoResult == [done |-> FALSE, ok |-> FALSE, err |-> "none", msg |-> "none"]
NoRaw    == [cmd_type |-> <<>>, cmd_action |-> <<>>, m_pin |-> 0,
             action |-> <<>>, device |-> <<>>]
NoResp   == [status |-> 0, error |-> FALSE, success |-> FALSE,
             message |-> "none", action |-> <<>>, pin |-> 0,
             device |-> None, pins |-> <<>>]
NoCall   == [op |-> "none", pin |-> 0, ok |-> FALSE, before |-> "Unknown"]
EmptyMap == [p \in {} |-> "Unknown"]

IdleTask ==
    [kind    |-> "none",     \* which handler or caller the task runs
     pc      |-> "idle",     \* idle, lock (awaiting the Mutex), cmd, done
     raw     |-> NoRaw,      \* the request as received
     pin     |-> 0,          \* pin argument of the controller call
     high    |-> FALSE,      \* level argument of write_gpio_pin
     logical |-> FALSE,      \* logical_on of the HomeKit callback
     action  |-> <<>>,       \* action_upper
     cmd     |-> NoCmd,      \* the backend command in flight
     current |-> "Unknown",  \* toggle_pin's current_state
     stdout  |-> <<>>,       \* what the read command printed
     issued  |-> <<>>,       \* backend commands spawned by this call so far
     pre     |-> EmptyMap,   \* pin_states when the call began
     result  |-> NoResult,   \* what the controller call returned
     resp    |-> NoResp]     \* the response sent

\* ------------------------------------------------------------------------
\* Controller operations
\* ------------------------------------------------------------------------

\* GpioController::get_pin_state
get_pin_state(map, pin) ==
    IF pin \in DOMAIN map THEN map[pin] ELSE "Unknown"

\* GpioController::get_all_pin_states: one PinStatus per entry of the map, in
\* the map's iteration order (unspecified; fixed for a given map)
RECURSIVE StatusesOf(_, _)
StatusesOf(map, keys) ==
    IF keys = {} THEN <<>>
    ELSE LET k == CHOOSE x \in keys : TRUE
         IN  <<[pin |-> k, state |-> map[k], last_toggled |-> Some("now")]>>
             \o StatusesOf(map, keys \ {k})

get_all_pin_states_first(map) ==
    IF DOMAIN map = {} THEN <<>>
    ELSE SubSeq(StatusesOf(map, DOMAIN map), 1, 1)

get_all_pin_states(map) == StatusesOf(map, DOMAIN map)

\* self.pin_states.insert(pin, state)
InsertDropped(map, pin, state) == map

Insert_bcm_keyed(map, pin, state) ==
    [p \in DOMAIN map \cup {physical_to_bcm(pin).val} |->
        IF p = physical_to_bcm(pin).val THEN state ELSE map[p]]

Insert_also_bcm(map, pin, state) ==
    [p \in DOMAIN map \cup {pin, physical_to_bcm(pin).val} |->
        IF p \in {pin, physical_to_bcm(pin).val} THEN state ELSE map[p]]

Insert_replacing(map, pin, state) == [p \in {pin} |-> state]

Insert(map, pin, state) ==
    [p \in DOMAIN map \cup {pin} |-> IF p = pin THEN state ELSE map[p]]

GpioError(msg) == [done |-> TRUE, ok |-> FALSE, err |-> "GpioError", msg |-> msg]
OkResult       == [done |-> TRUE, ok |-> TRUE, err |-> "none", msg |-> "none"]

\* Command::new("gpio").args(["-g", name, bcm, ...]), from the pin of the call
CommandFor(name, pin, high) ==
    [name    |-> name,
     pin     |-> physical_to_bcm(pin).val,
     value   |-> IF name = "write" THEN WriteValue(high) ELSE 0,
     outcome |-> "running"]

Spawn_retried(rec, name, spawned) ==
    LET c == CommandFor(name, rec.pin, rec.high)
    IN  IF spawned
        THEN [rec EXCEPT !.pc = "cmd", !.cmd = c, !.issued = Append(@, c)]
        ELSE [rec EXCEPT !.pc = "cmd", !.cmd = c,
                         !.issued = Append(Append(@,
                                       [c EXCEPT !.outcome = "unspawned"]), c)]

\* Command::output() of the next command: it cannot be spawned (the ? returns
\* the GpioError of map_err) or it is now running.
Spawn(rec, name, spawned) ==
    LET c == CommandFor(name, rec.pin, rec.high)
    IN  IF spawned
        THEN [rec EXCEPT !.pc = "cmd", !.cmd = c, !.issued = Append(@, c)]
        ELSE [rec EXCEPT !.pc = "ret", !.cmd = NoCmd,
                         !.issued = Append(@, [c EXCEPT !.outcome = "unspawned"]),
                         !.result = GpioError("GPIO command failed: {e}")]

\* The command in flight has exited: its status, in the log of the call
Exited(rec, status) ==
    [rec EXCEPT !.issued[Len(rec.issued)].outcome =
                    IF status = 0 THEN "zero" ELSE "nonzero"]

\* read_gpio_pin after `mode in` has exited: a non-zero status is only warned
\* about, and the read command is spawned
AfterModeIn(rec, status, spawned) == Spawn(rec, "read", spawned)

AfterRead_unchecked(rec, status, stdout, spawned) ==
    LET current_state == ParseRead(stdout)
        r == [rec EXCEPT !.current = current_state,
                         !.high = (current_state # "High")]
    IN  Spawn(r, "mode_out", spawned)

\* read_gpio_pin after `read` has exited, then toggle_pin's match, which
\* enters write_gpio_pin with the opposite level
AfterRead(rec, status, stdout, spawned) ==
    IF status # 0
    THEN [rec EXCEPT !.pc = "ret", !.cmd = NoCmd,
                     !.result = GpioError("Failed to read: {stderr}")]
    ELSE LET current_state == ParseRead(stdout)
             r == [rec EXCEPT !.current = current_state,
                              !.stdout = stdout,
                              !.high = (current_state # "High")]
         IN  Spawn(r, "mode_out", spawned)

AfterModeOut_unchecked(rec, status, spawned) == Spawn(rec, "write", spawned)

\* write_gpio_pin after `mode out` has exited
AfterModeOut(rec, status, spawned) ==
    IF status # 0
    THEN [rec EXCEPT !.pc = "ret", !.cmd = NoCmd,
                     !.result = GpioError("Failed to set mode: {stderr}")]
    ELSE Spawn(rec, "write", spawned)

AfterWrite_unchecked(rec, status) ==
    [rec EXCEPT !.pc = "ret", !.cmd = NoCmd, !.result = OkResult]

\* write_gpio_pin after `write` has exited
AfterWrite(rec, status) ==
    IF status # 0
    THEN [rec EXCEPT !.pc = "ret", !.cmd = NoCmd,
                     !.result = GpioError("Failed to write: {stderr}")]
    ELSE [rec EXCEPT !.pc = "ret", !.cmd = NoCmd, !.result = OkResult]

RecordedState_toggled(rec) ==
    IF get_pin_state(rec.pre, rec.pin) = "High" THEN "Low" ELSE "High"

\* The state set_pin and toggle_pin record after a successful write
RecordedState(rec) == PinStateOf(rec.high)


\* ------------------------------------------------------------------------
\* Responses
\* ------------------------------------------------------------------------

\* ApiError::into_response: the message of each error kind
MessageFixedText(err, msg) == "Internal server error"

MessageOf(err, msg) ==
    CASE err = "InvalidCommand" -> "Invalid command type. Expected ''toggle''"
      [] err = "InvalidAction"  -> "Invalid action. Expected ''ON'' or ''OFF''"
      [] err = "InvalidPin"     -> "Invalid GPIO pin"
      [] err = "ConfigError"    -> msg
      [] err = "GpioError"      -> msg
      [] err = "InternalError"  -> "Internal server error"

ErrorResponse(err, msg) ==
    [NoResp EXCEPT !.status = StatusOf(err), !.error = TRUE,
                   !.message = MessageOf(err, msg)]

\* Ok(Json(ApiResponse { success: true, action, pin, device, .. }))
ApiResponse(action, pin, device) ==
    [NoResp EXCEPT !.status = 200, !.success = TRUE, !.action = action,
                   !.pin = pin, !.device = device]

\* What the caller makes of the controller call's result
ResponseOf(rec, cfg) ==
    CASE rec.kind = "legacy" ->
            IF rec.result.ok
            THEN ApiResponse(rec.action, rec.pin, get_pin_name(cfg, rec.pin))
            ELSE ErrorResponse(rec.result.err, rec.result.msg)
      [] rec.kind = "control" ->
            IF rec.result.ok
            THEN ApiResponse(rec.action, rec.pin, Some(rec.raw.device))
            ELSE ErrorResponse(rec.result.err, rec.result.msg)
      [] OTHER -> NoResp   \* the HomeKit task only logs; toggle_pin's caller
                           \* has the Result itself

\* handle_reload_config answers success: true; handle_get_config and
\* handle_health answer 200 with their own bodies
OtherResponse_failed(kind) ==
    ErrorResponse("ConfigError", "Failed to read config: {e}")

OtherResponse(kind) ==
    [NoResp EXCEPT !.status = 200, !.success = (kind = "reload")]

Rejected_locking(rec, err) == [rec EXCEPT !.pc = "lock", !.pin = rec.raw.m_pin]

\* return Err(ApiError::Invalid..), before the handler reaches the lock
Rejected(rec, err) ==
    [rec EXCEPT !.pc = "done", !.resp = ErrorResponse(err, "none")]

\* ------------------------------------------------------------------------
\* Actions
\* ------------------------------------------------------------------------

TypeOK ==
    /\ lock \in 0..NumTasks
    /\ DOMAIN pin_states \subseteq Pins \cup NamePins
    /\ \A p \in DOMAIN pin_states : pin_states[p] \in {"High", "Low"}
    /\ DOMAIN line \subseteq LinesOf(Pins \cup NamePins)
    /\ \A l \in DOMAIN line : line[l] \in {0, 1}
    /\ \A t \in Tasks : task[t].pc \in {"idle", "lock", "cmd", "done"}

\* Config::default(), with either polarity of the relay wiring
Configs ==
    [fireplace : {17}, fireplace_fan : {27}, lights : {Some(22)},
     secondary_device : {Some(23)}, active_low : BOOLEAN]

\* Configuration files that leave lights or the secondary device out
NameConfigs ==
    [fireplace : {17}, fireplace_fan : {27}, lights : {None, Some(22)},
     secondary_device : {None, Some(23)}, active_low : {FALSE}]

\* The state after main has built AppState: GpioController::new() behind
\* an unlocked Mutex, the loaded configuration, no request yet. The lines
\* have whatever level the hardware has.
InitWith(pins, cfgs) ==
    /\ pin_states = EmptyMap
    /\ lock = 0
    /\ task = [t \in Tasks |-> IdleTask]
    /\ line \in [LinesOf(pins) -> {0, 1}]
    /\ config \in cfgs
    /\ hapOn = [a \in Accessories |-> FALSE]
    /\ performed = {}
    /\ succeeded = {}
    /\ readOrSet = {}
    /\ prevCall = NoCall

Init == InitWith(ConcPins, Configs)

controller == <<pin_states, lock, line>>

\* handle_legacy_gpio up to `state.gpio_controller.lock().await`
HandleLegacy(t, cmd_type, cmd_action, m_pin) ==
    /\ task[t].pc = "idle"
    /\ LET rec == [IdleTask EXCEPT !.kind = "legacy",
                       !.raw = [NoRaw EXCEPT !.cmd_type = cmd_type,
                                             !.cmd_action = cmd_action,
                                             !.m_pin = m_pin]]
           action_upper == to_uppercase(cmd_action)
       IN  task' = [task EXCEPT ![t] =
              IF to_lowercase(cmd_type) # S_toggle
              THEN Rejected(rec, "InvalidCommand")
              ELSE IF action_upper # S_ON /\ action_upper # S_OFF
              THEN Rejected(rec, "InvalidAction")
              ELSE [rec EXCEPT !.pc = "lock", !.pin = m_pin,
                               !.action = action_upper,
                               !.high = (action_upper = S_ON)]]
    /\ UNCHANGED <<controller, config, hapOn, history>>

\* handle_fireplace_control up to `state.gpio_controller.lock().await`
HandleControl(t, action, device) ==
    /\ task[t].pc = "idle"
    /\ LET rec == [IdleTask EXCEPT !.kind = "control",
                       !.raw = [NoRaw EXCEPT !.action = action,
                                             !.device = device]]
           dev == to_lowercase(device)
           action_upper == to_uppercase(action)
       IN  task' = [task EXCEPT ![t] =
              IF dev # S_fireplace /\ dev # S_fan
              THEN Rejected(rec, "InvalidPin")
              ELSE IF action_upper # S_ON /\ action_upper # S_OFF
              THEN Rejected(rec, "InvalidAction")
              ELSE [rec EXCEPT !.pc = "lock",
                               !.pin = IF dev = S_fireplace
                                       THEN config.fireplace
                                       ELSE config.fireplace_fan,
                               !.action = action_upper,
                               !.high = (action_upper = S_ON)]]
    /\ UNCHANGED <<controller, config, hapOn, history>>

\* handle_gpio_status up to `state.gpio_controller.lock().await`
HandleStatus(t) ==
    /\ task[t].pc = "idle"
    /\ task' = [task EXCEPT ![t] = [IdleTask EXCEPT !.kind = "status",
                                                    !.pc = "lock"]]
    /\ UNCHANGED <<controller, config, hapOn, history>>

\* handle_get_config, handle_reload_config and handle_health: answered
\* without the controller
HandleOther(t, kind) ==
    /\ task[t].pc = "idle"
    /\ task' = [task EXCEPT ![t] =
          [IdleTask EXCEPT !.kind = kind, !.pc = "done",
                           !.resp = OtherResponse(kind)]]
    /\ UNCHANGED <<controller, config, hapOn, history>>

\* The on_update callbacks of the two accessories: a changed value spawns a
\* task that will lock the controller and call set_pin; the callback
\* returns Ok(()) either way and the characteristic takes the new value.
HapUpdate(t, acc, new) ==
    /\ Changed(hapOn[acc], new) => task[t].pc = "idle"
    /\ hapOn' = [hapOn EXCEPT ![acc] = new]
    /\ task' = IF Changed(hapOn[acc], new)
               THEN [task EXCEPT ![t] =
                      [IdleTask EXCEPT
                          !.kind = "hap", !.pc = "lock",
                          !.pin = IF acc = "fireplace" THEN config.fireplace
                                  ELSE config.fireplace_fan,
                          !.logical = new,
                          !.high = PhysicalHigh(new, config.active_low)]]
               ELSE task
    /\ UNCHANGED <<controller, config, history>>

\* A caller of GpioController::toggle_pin, up to the lock
CallToggle(t, pin) ==
    /\ task[t].pc = "idle"
    /\ task' = [task EXCEPT ![t] = [IdleTask EXCEPT !.kind = "toggle",
                                                    !.pc = "lock",
                                                    !.pin = pin]]
    /\ UNCHANGED <<controller, config, hapOn, history>>

\* The history of the controller calls, extended by a call that has returned
\* (toggle_pin's read has succeeded once current_state is set)
Observed(rec) ==
    /\ performed' = performed \cup {rec.pin}
    /\ succeeded' = IF rec.result.ok THEN succeeded \cup {rec.pin}
                    ELSE succeeded
    /\ readOrSet' = IF \/ rec.kind # "toggle" /\ rec.result.ok
                       \/ rec.kind = "toggle" /\ rec.current # "Unknown"
                    THEN readOrSet \cup {rec.pin} ELSE readOrSet
    /\ UNCHANGED prevCall

IsWriteCall(rec) == rec.kind \in {"legacy", "control", "hap", "toggle"}

\* The call of a task that has finished, for the history
CallOf(rec) ==
    [op     |-> IF rec.kind = "toggle" THEN "toggle_pin" ELSE "set_pin",
     pin    |-> rec.pin,
     ok     |-> rec.result.ok,
     before |-> get_pin_state(rec.pre, rec.pin)]

Returned_holding(t, rec, observe) ==
    /\ pin_states' = IF rec.result.ok
                     THEN Insert(pin_states, rec.pin, RecordedState(rec))
                     ELSE pin_states
    /\ lock' = IF rec.result.ok THEN 0 ELSE t
    /\ task' = [task EXCEPT ![t] =
                   [rec EXCEPT !.pc = "done", !.resp = ResponseOf(rec, config)]]
    /\ IF observe THEN Observed(rec) ELSE UNCHANGED history

\* The controller call has returned: set_pin and toggle_pin insert the new
\* state on success, the `?` passes an error on; the guard is dropped and
\* the caller answers.
Returned(t, rec, observe) ==
    /\ pin_states' = IF rec.result.ok
                     THEN Insert(pin_states, rec.pin, RecordedState(rec))
                     ELSE pin_states
    /\ lock' = 0
    /\ task' = [task EXCEPT ![t] =
                   [rec EXCEPT !.pc = "done", !.resp = ResponseOf(rec, config)]]
    /\ IF observe THEN Observed(rec) ELSE UNCHANGED history

Continue_releasing(t, rec, observe) ==
    IF rec.pc = "cmd"
    THEN /\ lock' = 0
         /\ task' = [task EXCEPT ![t] = rec]
         /\ UNCHANGED <<pin_states, history>>
    ELSE Returned(t, rec, observe)

\* The call goes on holding the guard while its next command runs, or it
\* has returned
Continue(t, rec, observe) ==
    IF rec.pc = "cmd"
    THEN /\ lock' = t
         /\ task' = [task EXCEPT ![t] = rec]
         /\ UNCHANGED <<pin_states, history>>
    ELSE Returned(t, rec, observe)

LockFree_always == TRUE

\* Mutex::lock: granted when no task holds the guard
LockFree == lock = 0

\* The Mutex is granted: the status handler snapshots the map and answers;
\* set_pin and toggle_pin run up to their first Command::output().
AcquireStep(t, spawned, observe) ==
    /\ task[t].pc = "lock"
    /\ LockFree
    /\ IF task[t].kind = "status"
       THEN /\ task' = [task EXCEPT ![t] =
                  [@ EXCEPT !.pc = "done",
                            !.resp = [NoResp EXCEPT !.status = 200,
                                 !.pins = get_all_pin_states(pin_states)]]]
            /\ UNCHANGED <<pin_states, lock, history>>
       ELSE LET rec == [task[t] EXCEPT !.pre = pin_states]
            IN  Continue(t, Spawn(rec, IF rec.kind = "toggle" THEN "mode_in"
                                       ELSE "mode_out", spawned), observe)
    /\ UNCHANGED <<line, config, hapOn>>

\* The command in flight exits with `status`; the call runs on to its next
\* Command::output() (which spawns or not) or to its return.
ExitStep(t, status, spawned, observe) ==
    /\ task[t].pc = "cmd"
    /\ LET rec == task[t]
           c   == rec.cmd
           out == Exited(rec, status)
       IN  /\ line' = IF c.name = "write" /\ status = 0
                      THEN [line EXCEPT ![c.pin] = c.value]
                      ELSE line
           /\ Continue(t,
                CASE c.name = "mode_in"  -> AfterModeIn(out, status, spawned)
                  [] c.name = "read"     ->
                        AfterRead(out, status, ReadStdout(line[c.pin]), spawned)
                  [] c.name = "mode_out" -> AfterModeOut(out, status, spawned)
                  [] c.name = "write"    -> AfterWrite(out, status),
                observe)
    /\ UNCHANGED <<config, hapOn>>

\* The read command in flight exits zero having printed `stdout`, whatever
\* the tool makes of the line
ReadExit(t, stdout, spawned) ==
    /\ task[t].pc = "cmd"
    /\ task[t].cmd.name = "read"
    /\ Continue(t, AfterRead(Exited(task[t], 0), 0, stdout, spawned), FALSE)
    /\ UNCHANGED <<line, config, hapOn>>

\* The outcome of one command of gpio_shell::read_pin, for the log
ShellCommand(name, pin, spawned, status) ==
    [name    |-> name, pin |-> pin, value |-> 0,
     outcome |-> IF ~spawned THEN "unspawned"
                 ELSE IF status = 0 THEN "zero" ELSE "nonzero"]

\* gpio_shell::read_pin, a Result<bool, String>: `gpio mode <pin> in`, of
\* which only a spawn error is looked at, then `gpio read <pin>`
shell_read_pin(mode_spawned, read_spawned, status, stdout) ==
    IF ~mode_spawned
    THEN [done |-> TRUE, ok |-> FALSE, err |-> "String",
          msg |-> "Failed to set GPIO mode: {e}", val |-> FALSE]
    ELSE IF ~read_spawned
    THEN [done |-> TRUE, ok |-> FALSE, err |-> "String",
          msg |-> "Failed to read GPIO pin: {e}", val |-> FALSE]
    ELSE IF status # 0
    THEN [done |-> TRUE, ok |-> FALSE, err |-> "String",
          msg |-> "Failed to read GPIO pin: {stderr}", val |-> FALSE]
    ELSE [done |-> TRUE, ok |-> TRUE, err |-> "none", msg |-> "none",
          val |-> shell_level(stdout)]

\* A caller of gpio_shell::read_pin (no controller, no lock); the bool it
\* returns is kept as High for true and Low for false
ShellReadPin(t, pin, mode_spawned, mode_status, read_spawned, status, stdout) ==
    /\ task[t].pc = "idle"
    /\ LET r == shell_read_pin(mode_spawned, read_spawned, status, stdout)
       IN  task' = [task EXCEPT ![t] =
              [IdleTask EXCEPT
                 !.kind = "shell_read", !.pc = "done", !.pin = pin,
                 !.issued =
                    IF mode_spawned
                    THEN <<ShellCommand("mode_in", pin, TRUE, mode_status),
                           ShellCommand("read", pin, read_spawned, status)>>
                    ELSE <<ShellCommand("mode_in", pin, FALSE, 0)>>,
                 !.stdout = IF r.ok THEN stdout ELSE <<>>,
                 !.current = IF r.ok THEN (IF r.val THEN "High" ELSE "Low")
                             ELSE "Unknown",
                 !.result = [done |-> TRUE, ok |-> r.ok, err |-> r.err,
                             msg |-> r.msg]]]
    /\ UNCHANGED <<controller, config, hapOn, history>>

Acquire(t, spawned) == AcquireStep(t, spawned, FALSE)
Exit(t, status, spawned) == ExitStep(t, status, spawned, FALSE)

\* The same steps, with the history of the calls kept
AcquireObserved(t, spawned) == AcquireStep(t, spawned, TRUE)
ExitObserved(t, status, spawned) == ExitStep(t, status, spawned, TRUE)

\* The response has been sent and the task ends
FinishStep(t, observe) ==
    /\ task[t].pc = "done"
    /\ task' = [task EXCEPT ![t] = IdleTask]
    /\ prevCall' = IF observe /\ IsWriteCall(task[t]) THEN CallOf(task[t])
                   ELSE prevCall
    /\ UNCHANGED <<controller, config, hapOn, performed, succeeded, readOrSet>>

Finish(t) == FinishStep(t, FALSE)
FinishObserved(t) == FinishStep(t, TRUE)

\* All callers, concurrently
Next ==
    \E t \in Tasks :
        \/ \E ct \in CmdTypes, ca \in CmdActions, p \in ConcPins :
               HandleLegacy(t, ct, ca, p)
        \/ \E a \in CmdActions, d \in Devices : HandleControl(t, a, d)
        \/ HandleStatus(t)
        \/ \E k \in {"config", "reload", "health"} : HandleOther(t, k)
        \/ \E acc \in Accessories, new \in BOOLEAN : HapUpdate(t, acc, new)
        \/ \E p \in ConcPins : CallToggle(t, p)
        \/ \E spawned \in BOOLEAN : Acquire(t, spawned)
        \/ \E status \in {0, 1}, spawned \in BOOLEAN : Exit(t, status, spawned)

Spec == Init /\ [][Next]_vars

\* All kinds of callers, concurrently, with one request of each shape
LockInit == InitWith(ConcPins, {c \in Configs : c.active_low})

LockNext ==
    \E t \in Tasks :
        \/ \E ca \in {S_ON, S_dim} : HandleLegacy(t, S_Toggle, ca, 27)
        \/ HandleControl(t, S_Off, S_Fan)
        \/ HandleStatus(t)
        \/ \E new \in BOOLEAN : HapUpdate(t, "fireplace", new)
        \/ CallToggle(t, 17)
        \/ \E spawned \in BOOLEAN : Acquire(t, spawned)
        \/ \E status \in {0, 1}, spawned \in BOOLEAN : Exit(t, status, spawned)

LockSpec == LockInit /\ [][LockNext]_vars

\* The HomeKit callbacks of both accessories, with an HTTP caller and the
\* spawned tasks competing for the controller
HapInit == InitWith(ConcPins, Configs)

HapNext ==
    \E t \in Tasks :
        \/ \E acc \in Accessories, new \in BOOLEAN : HapUpdate(t, acc, new)
        \/ HandleControl(t, S_ON, S_fireplace)
        \/ \E spawned \in BOOLEAN : Acquire(t, spawned)
        \/ \E status \in {0, 1}, spawned \in BOOLEAN : Exit(t, status, spawned)

HapSpec == HapInit /\ [][HapNext]_vars

\* An HTTP handler task (task 1) and the tasks spawned by the fireplace
\* accessory (the others), request after request on the fireplace pin; every backend command exits and the Mutex is fair
LiveInit == InitWith({17}, {c \in Configs : ~c.active_low})

LiveNext ==
    \E t \in Tasks :
        \/ t = 1 /\ HandleLegacy(t, S_toggle, S_ON, 17)
        \/ t # 1 /\ \E new \in BOOLEAN : HapUpdate(t, "fireplace", new)
        \/ \E spawned \in BOOLEAN : Acquire(t, spawned)
        \/ \E status \in {0, 1}, spawned \in BOOLEAN : Exit(t, status, spawned)
        \/ Finish(t)

Fairness ==
    \A t \in Tasks :
        /\ SF_vars(\E spawned \in BOOLEAN : Acquire(t, spawned))
        /\ WF_vars(\E status \in {0, 1}, spawned \in BOOLEAN :
                      Exit(t, status, spawned))

LiveSpec == LiveInit /\ [][LiveNext]_vars /\ Fairness

\* Reads of both gpio backends, with every output a read command may print
ReadInit == InitWith({17}, {c \in Configs : ~c.active_low})

ReadNext ==
    \/ CallToggle(1, 17)
    \/ \E spawned \in BOOLEAN : Acquire(1, spawned)
    \/ \E status \in {0, 1}, spawned \in BOOLEAN : Exit(1, status, spawned)
    \/ \E stdout \in Outputs, spawned \in BOOLEAN : ReadExit(1, stdout, spawned)
    \/ \E stdout \in Outputs, ms, rs \in BOOLEAN, mst, st \in {0, 1} :
           ShellReadPin(1, 17, ms, mst, rs, st, stdout)
    \/ Finish(1)

ReadSpec == ReadInit /\ [][ReadNext]_vars

\* One caller at a time, any number of requests one after the other
SeqNext ==
    \/ \E ct \in CmdTypes, ca \in CmdActions, p \in Pins :
           HandleLegacy(1, ct, ca, p)
    \/ \E a \in CmdActions, d \in Devices : HandleControl(1, a, d)
    \/ HandleStatus(1)
    \/ \E k \in {"config", "reload", "health"} : HandleOther(1, k)
    \/ \E acc \in Accessories, new \in BOOLEAN : HapUpdate(1, acc, new)
    \/ \E p \in Pins : CallToggle(1, p)
    \/ \E spawned \in BOOLEAN : Acquire(1, spawned)
    \/ \E status \in {0, 1}, spawned \in BOOLEAN : Exit(1, status, spawned)
    \/ Finish(1)

SeqInit == InitWith(Pins, Configs)

SeqSpec == SeqInit /\ [][SeqNext]_vars

\* One caller at a time on the controller's own interface, with the history
\* of the calls kept
HistInit == InitWith(AliasPins, {c \in Configs : ~c.active_low})

HistNext ==
    \/ \E ca \in {S_ON, S_OFF}, p \in AliasPins :
           HandleLegacy(1, S_toggle, ca, p)
    \/ \E p \in AliasPins : CallToggle(1, p)
    \/ \E spawned \in BOOLEAN : AcquireObserved(1, spawned)
    \/ \E status \in {0, 1}, spawned \in BOOLEAN :
           ExitObserved(1, status, spawned)
    \/ HandleStatus(1)
    \/ FinishObserved(1)

HistSpec == HistInit /\ [][HistNext]_vars

\* Legacy requests, one after the other, under each configuration
NameInit == InitWith(NamePins, NameConfigs)

NameNext ==
    \/ \E ca \in {S_ON, S_Off}, p \in NamePins :
           HandleLegacy(1, S_Toggle, ca, p)
    \/ \E spawned \in BOOLEAN : Acquire(1, spawned)
    \/ \E status \in {0, 1}, spawned \in BOOLEAN : Exit(1, status, spawned)
    \/ Finish(1)

NameSpec == NameInit /\ [][NameNext]_vars


\* ------------------------------------------------------------------------
\* Properties
\* ------------------------------------------------------------------------

\* The calls that have returned, still with their caller
Returned_calls ==
    {t \in Tasks : task[t].pc = "done" /\ IsWriteCall(task[t])
                                      /\ task[t].result.done}

\* Some backend command of the call could not be spawned or exited non-zero
AnyCommandFailed(rec) ==
    \E i \in 1..Len(rec.issued) :
        rec.issued[i].outcome \in {"unspawned", "nonzero"}

\* The same, a non-zero exit of read_gpio_pin's `mode in` aside
CommandFailed(rec) ==
    \E i \in 1..Len(rec.issued) :
        \/ rec.issued[i].outcome = "unspawned"
        \/ rec.issued[i].outcome = "nonzero" /\ rec.issued[i].name # "mode_in"

IsGpioError(result) == result.done /\ ~result.ok /\ result.err = "GpioError"

C3_OneInFlight ==
    \A t \in Tasks :
        task[t].pc = "cmd" =>
            /\ lock = t
            /\ \A u \in Tasks \ {t} :
                  /\ task[u].pc # "cmd"
                  /\ task[u].pc = "lock" => task[u].issued = <<>>

\* an HTTP handler's command is in flight while a HomeKit task waits
C3_Witness ==
    \E t, u \in Tasks :
        /\ task[t].kind = "legacy" /\ task[t].pc = "cmd"
        /\ task[u].kind = "hap" /\ task[u].pc = "lock"

\* C4 as stated: two successful toggle_pin calls in sequence on a pin with a
\* recorded High or Low state, nothing else in between, leave the pin with
\* the recorded state it had before the first.
C4_ToggleTwiceRestores ==
    \A t \in Returned_calls :
        ( /\ task[t].kind = "toggle" /\ task[t].result.ok
          /\ prevCall.op = "toggle_pin" /\ prevCall.ok
          /\ prevCall.pin = task[t].pin
          /\ prevCall.before \in {"High", "Low"} )
        => get_pin_state(pin_states, task[t].pin) = prevCall.before

\* C5: a pin on which no set_pin or toggle_pin has been performed reports
\* Unknown; a controller on which nothing has been performed reports an
\* empty get_all_pin_states.
C5_UntouchedUnknown ==
    /\ \A p \in Pins :
          p \notin performed => get_pin_state(pin_states, p) = "Unknown"
    /\ performed = {} => get_all_pin_states(pin_states) = <<>>

\* one pin has a recorded state, another has never been touched
C5_Witness ==
    /\ 37 \in DOMAIN pin_states
    /\ 26 \notin performed
    /\ get_pin_state(pin_states, 26) = "Unknown"

StatusPins(statuses) == {statuses[i].pin : i \in 1..Len(statuses)}

\* C6 as stated: the map has an entry for a pin exactly when a set_pin, a
\* successful toggle_pin or a successful read has occurred for it.
C6_EntryIffSetOrRead == DOMAIN pin_states = readOrSet

\* C6 amended: the map has an entry for a pin exactly when a set_pin or a
\* toggle_pin on it has succeeded (a successful read whose write then fails
\* adds none), and get_all_pin_states has exactly one entry per such pin.
C6_EntryIffSucceeded ==
    /\ DOMAIN pin_states = succeeded
    /\ LET all == get_all_pin_states(pin_states)
       IN  /\ StatusPins(all) = succeeded
           /\ Len(all) = Cardinality(succeeded)
           /\ \A i \in 1..Len(all) : all[i].state = pin_states[all[i].pin]
    /\ \A t \in Tasks :
          (task[t].kind = "status" /\ task[t].pc = "done") =>
              /\ StatusPins(task[t].resp.pins) = succeeded
              /\ Len(task[t].resp.pins) = Cardinality(succeeded)

\* the status answer lists two pins, a third has only been read
C6_Witness ==
    /\ \E t \in Tasks :
          /\ task[t].kind = "status" /\ task[t].pc = "done"
          /\ Len(task[t].resp.pins) = 2
    /\ readOrSet \ succeeded # {}

\* C7: a set_pin or toggle_pin call on pin p, successful or not, leaves the
\* recorded state of every other pin as it was, and all its backend commands
\* are for p's line; set_pin(17, true) on a fresh controller records High
\* for 17, leaves 27 Unknown and issues `mode 17 out`, `write 17 1` only.
C7_OtherPinsUnchanged ==
    \A t \in Returned_calls :
        /\ \A q \in Pins \ {task[t].pin} :
              get_pin_state(pin_states, q) = get_pin_state(task[t].pre, q)
        /\ ( /\ task[t].kind \in {"legacy", "control", "hap"}
             /\ task[t].pin = 17 /\ task[t].high /\ task[t].result.ok
             /\ task[t].pre = EmptyMap )
           => /\ get_pin_state(pin_states, 17) = "High"
              /\ get_pin_state(pin_states, 27) = "Unknown"
              /\ Len(task[t].issued) = 2
              /\ task[t].issued[1].name = "mode_out"
              /\ task[t].issued[1].pin = 17
              /\ task[t].issued[2].name = "write"
              /\ task[t].issued[2].pin = 17
              /\ task[t].issued[2].value = 1

\* set_pin(17, true) has succeeded on a fresh controller
C7_Witness ==
    \E t \in Returned_calls :
        /\ task[t].kind = "legacy" /\ task[t].pin = 17 /\ task[t].high
        /\ task[t].result.ok /\ task[t].pre = EmptyMap
        /\ get_pin_state(pin_states, 27) = "Unknown"

\* The first configured appliance whose pin is the argument, in the order
\* fireplace, fan, lights, secondary
FirstMatch(cfg, pin) ==
    IF pin = cfg.fireplace THEN Some("fireplace")
    ELSE IF pin = cfg.fireplace_fan THEN Some("fireplace_fan")
    ELSE IF pin \in cfg.lights THEN Some("lights")
    ELSE IF pin \in cfg.secondary_device THEN Some("secondary_device")
    ELSE None

\* C8 as stated: the device of a legacy answer is the name of the first
\* configured appliance whose pin is the request's pin, absent only if none
\* of the four pins is; the secondary pin yields the secondary device's name.
C8_FirstMatchingName ==
    \A t \in Tasks :
        (task[t].kind = "legacy" /\ task[t].pc = "done" /\ task[t].result.ok)
        => task[t].resp.device = FirstMatch(config, task[t].pin)

BcmTable == (37 :> 26) @@ (38 :> 20) @@ (22 :> 25) @@ (23 :> 24)

ExpectedBcm(p) == IF p \in DOMAIN BcmTable THEN BcmTable[p] ELSE p

SameLetter(a, b) ==
    \/ a = b
    \/ \E k \in 1..Len(LowerLetters) :
          {a, b} = {LowerLetters[k], UpperLetters[k]}

EqualIgnoringCase(s1, s2) ==
    /\ Len(s1) = Len(s2)
    /\ \A i \in 1..Len(s1) : SameLetter(s1[i], s2[i])

ValidAction(a) == EqualIgnoringCase(a, S_ON) \/ EqualIgnoringCase(a, S_OFF)

ValidRequest(rec) ==
    CASE rec.kind = "legacy" ->
            /\ EqualIgnoringCase(rec.raw.cmd_type, S_toggle)
            /\ ValidAction(rec.raw.cmd_action)
      [] rec.kind = "control" ->
            /\ \/ EqualIgnoringCase(rec.raw.device, S_fireplace)
               \/ EqualIgnoringCase(rec.raw.device, S_fan)
            /\ ValidAction(rec.raw.action)
      [] OTHER -> TRUE

\* C10: a request whose controller operation fails with a GpioError is
\* answered 500 with the error's message, a request with invalid input is
\* answered 400 (and never reaches the controller), and no failing request
\* is answered with success.
C10_ErrorStatus ==
    \A t \in Tasks :
        task[t].kind \in {"legacy", "control"} =>
            /\ ~ValidRequest(task[t]) =>
                  /\ task[t].pc = "done"
                  /\ task[t].resp.status = 400
                  /\ task[t].resp.error /\ ~task[t].resp.success
                  /\ task[t].issued = <<>>
            /\ (task[t].pc = "done" /\ IsGpioError(task[t].result)) =>
                  /\ task[t].resp.status = 500
                  /\ task[t].resp.message = task[t].result.msg
                  /\ task[t].resp.error /\ ~task[t].resp.success
            /\ (task[t].pc = "done" /\ task[t].resp.success) =>
                  /\ ValidRequest(task[t])
                  /\ task[t].result.ok
                  /\ task[t].resp.status = 200

\* a control request whose write exits non-zero has been answered 500
C10_Witness ==
    \E t \in Tasks :
        /\ task[t].kind = "control" /\ task[t].pc = "done"
        /\ IsGpioError(task[t].result)
        /\ task[t].resp.status = 500
        /\ task[t].resp.message = "Failed to write: {stderr}"

\* The pin an accessory is configured to drive
AccessoryPin(acc) ==
    IF acc = "fireplace" THEN config.fireplace ELSE config.fireplace_fan

\* Task t is spawned by this step to call set_pin
HapStarted(t) ==
    /\ task[t].pc = "idle"
    /\ task'[t].kind = "hap" /\ task'[t].pc = "lock"

\* C11: every step in which an accessory's On value changes starts exactly
\* one task that will call set_pin(configured pin, new value, configured
\* active_low), a task is started by no other step, and no step of a started
\* task (its set_pin failing included) touches the value the callback has
\* accepted.
C11_OneSetPinPerChange ==
    [][ /\ \A acc \in Accessories :
              hapOn'[acc] # hapOn[acc] =>
                  \E t \in Tasks :
                      /\ HapStarted(t)
                      /\ task'[t].pin = AccessoryPin(acc)
                      /\ task'[t].logical = hapOn'[acc]
                      /\ task'[t].high =
                            PhysicalHigh(hapOn'[acc], config.active_low)
                      /\ task'[t].issued = <<>>
                      /\ \A u \in Tasks \ {t} : task'[u] = task[u]
        /\ \A t \in Tasks : HapStarted(t) => hapOn' # hapOn
        /\ (\E t \in Tasks : task[t].kind = "hap" /\ task'[t] # task[t])
              => hapOn' = hapOn
      ]_vars

\* the set_pin of an accepted update has failed; the accessory keeps the
\* value the callback accepted
C11_Witness ==
    \E t \in Tasks :
        /\ task[t].kind = "hap" /\ task[t].pc = "done"
        /\ IsGpioError(task[t].result)
        /\ task[t].pin = config.fireplace_fan
        /\ hapOn["fan"] = task[t].logical

\* C12: a configuration reload request is answered at once with success,
\* and no step of it (its arrival, its answer, its end) changes the
\* configuration, the pin-state map, the lock or a line, or issues a backend
\* command.
C12_ReloadChangesNothing ==
    [][ \A t \in Tasks :
          (task'[t] # task[t] /\ "reload" \in {task[t].kind, task'[t].kind})
          => /\ config' = config
             /\ pin_states' = pin_states
             /\ line' = line
             /\ lock' = lock
             /\ task'[t].kind = "reload" =>
                   /\ task'[t].pc = "done"
                   /\ task'[t].resp.status = 200
                   /\ task'[t].resp.success /\ ~task'[t].resp.error
                   /\ task'[t].issued = <<>>
                   /\ task'[t].cmd = NoCmd
      ]_vars

\* a reload has been answered while the map records two pins
C12_Witness ==
    \E t \in Tasks :
        /\ task[t].kind = "reload" /\ task[t].pc = "done"
        /\ task[t].resp.success
        /\ Cardinality(DOMAIN pin_states) = 2

\* The PinState of a line level
LevelState(level) == IF level = 1 THEN "High" ELSE "Low"

\* Task t's toggle_pin returns Ok in this step
ToggleSucceeds(t) ==
    /\ task[t].kind = "toggle" /\ task[t].pc = "cmd"
    /\ task'[t].pc = "done" /\ task'[t].result.ok

\* C13: the current_state of a toggle_pin is the level its read command
\* found on the pin's line; a successful toggle_pin has issued mode-in, read,
\* mode-out and write in that order, has written 0 and recorded Low when the
\* read gave High, and has written 1 and recorded High otherwise, whatever
\* the map recorded for the pin before.
C13_ToggleFromBackendLevel ==
    [][ \A t \in Tasks :
          /\ ( /\ task[t].pc = "cmd" /\ task[t].cmd.name = "read"
               /\ task'[t].current # "Unknown" )
             => task'[t].current = LevelState(line[task[t].cmd.pin])
          /\ ToggleSucceeds(t) =>
                LET rec == task'[t]
                    opposite == IF rec.current = "High" THEN "Low" ELSE "High"
                IN  /\ rec.current \in {"High", "Low"}
                    /\ [i \in 1..Len(rec.issued) |-> rec.issued[i].name]
                          = <<"mode_in", "read", "mode_out", "write">>
                    /\ rec.issued[4].value = (IF opposite = "High" THEN 1 ELSE 0)
                    /\ line'[rec.issued[4].pin] = rec.issued[4].value
                    /\ pin_states' = Insert(pin_states, rec.pin, opposite)
      ]_vars

\* a toggle_pin has read Low on a pin the map recorded as High, and has
\* written 1 and recorded High
C13_Witness ==
    \E t \in Returned_calls :
        /\ task[t].kind = "toggle" /\ task[t].result.ok
        /\ get_pin_state(task[t].pre, task[t].pin) = "High"
        /\ task[t].current = "Low"
        /\ get_pin_state(pin_states, task[t].pin) = "High"
        /\ task[t].issued[4].value = 1

\* The names of the backend commands a call has issued, in order
IssuedNames(rec) == [i \in 1..Len(rec.issued) |-> rec.issued[i].name]

\* A command of the write procedure has been issued by the call
WriteIssued(rec) ==
    \E i \in 1..Len(rec.issued) : rec.issued[i].name \in {"mode_out", "write"}

WriteAfterModeOut(rec) ==
    \A i \in 1..Len(rec.issued) :
        rec.issued[i].name = "write" =>
            /\ i > 1
            /\ rec.issued[i - 1].name = "mode_out"
            /\ rec.issued[i - 1].outcome = "zero"
            /\ rec.issued[i - 1].pin = rec.issued[i].pin

\* C15: every write command follows a mode-out command of the same call that
\* was spawned and exited zero; a call succeeds only if its mode-out and its
\* write command both exited zero; and a line changes level only when the
\* write command of such a call exits zero, to the value of that command.
C15_ModeOutBeforeWrite ==
    [][ /\ \A t \in Tasks :
              /\ WriteAfterModeOut(task'[t])
              /\ (IsWriteCall(task'[t]) /\ task'[t].result.ok) =>
                    LET n == Len(task'[t].issued)
                    IN  /\ n >= 2
                        /\ task'[t].issued[n - 1].name = "mode_out"
                        /\ task'[t].issued[n - 1].outcome = "zero"
                        /\ task'[t].issued[n].name = "write"
                        /\ task'[t].issued[n].outcome = "zero"
        /\ line' # line =>
              \E t \in Tasks :
                  LET n == Len(task'[t].issued)
                  IN  /\ task[t].pc = "cmd" /\ task[t].cmd.name = "write"
                      /\ task'[t].issued[n].outcome = "zero"
                      /\ task'[t].issued[n - 1].outcome = "zero"
                      /\ line' = [line EXCEPT ![task[t].cmd.pin] =
                                                  task[t].cmd.value]
      ]_vars

\* a set_pin whose mode-out command exited non-zero has returned, with no
\* write command issued
C15_Witness ==
    \E t \in Returned_calls :
        /\ task[t].kind \in {"legacy", "control", "hap"}
        /\ IssuedNames(task[t]) = <<"mode_out">>
        /\ task[t].issued[1].outcome = "nonzero"
        /\ task[t].result = GpioError("Failed to set mode: {stderr}")

\* The backend commands of a call, in the order the code runs them
CommandOrder(rec) ==
    IF rec.kind = "toggle" THEN <<"mode_in", "read", "mode_out", "write">>
    ELSE <<"mode_out", "write">>

\* C16: the commands a set_pin or toggle_pin call has executed are an
\* initial part of its command order, each at most once; a command that
\* fails to spawn, and a command of the write path that exits non-zero, is
\* the last command of its call, which has returned a GpioError.
C16_NoRetry ==
    \A t \in Tasks :
        IsWriteCall(task[t]) =>
            LET rec == task[t]
                n   == Len(rec.issued)
            IN  /\ n <= Len(CommandOrder(rec))
                /\ IssuedNames(rec) = SubSeq(CommandOrder(rec), 1, n)
                /\ \A i \in 1..n :
                      ( \/ rec.issued[i].outcome = "unspawned"
                        \/ /\ rec.issued[i].outcome = "nonzero"
                           /\ rec.issued[i].name \in {"mode_out", "write"} )
                      => /\ i = n
                         /\ rec.pc = "done"
                         /\ IsGpioError(rec.result)
                /\ rec.pc = "cmd" =>
                      /\ n >= 1
                      /\ rec.issued[n] = rec.cmd

\* the mode-out command of a toggle_pin could not be spawned, after its
\* read; nothing was executed after it
C16_Witness ==
    \E t \in Returned_calls :
        /\ task[t].kind = "toggle"
        /\ IssuedNames(task[t]) = <<"mode_in", "read", "mode_out">>
        /\ task[t].issued[3].outcome = "unspawned"
        /\ task[t].result = GpioError("GPIO command failed: {e}")

\* The command in flight of task t exits in this step
CommandExits(t) ==
    LET n == Len(task[t].issued)
    IN  /\ task[t].issued[n].outcome = "running"
        /\ task'[t].issued[n].outcome \in {"zero", "nonzero"}

\* C17: in every step taken while a caller's backend command is in flight,
\* no other caller starts or completes a controller operation (a waiting
\* caller stays where it is, none gets a command in flight or a result, on
\* any pin), the map, the lines and the lock change only with that caller,
\* and that caller moves on only by its command exiting: nothing times the
\* command out or cancels it, so nothing completes while it does not return.
C17_InFlightBlocksAll ==
    [][ \A t \in Tasks :
          task[t].pc = "cmd" =>
              /\ \A u \in Tasks \ {t} :
                    /\ task[u].pc = "lock" => task'[u] = task[u]
                    /\ task'[u].pc # "cmd"
                    /\ task'[u].issued = task[u].issued
                    /\ task'[u].pc = "done" =>
                          \/ task'[u] = task[u]
                          \/ /\ ~task'[u].result.done
                             /\ task'[u].kind # "status"
              /\ <<pin_states, line, lock>>' # <<pin_states, line, lock>>
                    => task'[t] # task[t]
              /\ task'[t] # task[t] => CommandExits(t)
      ]_vars

\* the write command of a request for the fan is in flight while a
\* toggle_pin on the fireplace pin waits for the lock
C17_Witness ==
    \E t, u \in Tasks :
        /\ task[t].pc = "cmd" /\ task[t].cmd.name = "write"
        /\ task[t].pin = 27
        /\ task[u].kind = "toggle" /\ task[u].pc = "lock" /\ task[u].pin = 17

\* Task t is in a toggle_pin whose read has returned and whose write has
\* not yet
BetweenReadAndWrite(t) ==
    /\ task[t].kind = "toggle" /\ task[t].pc = "cmd"
    /\ task[t].cmd.name \in {"mode_out", "write"}

\* C18: from the return of a toggle_pin's read until its write has exited,
\* the caller holds the lock, no other caller has a command in flight or
\* has issued one since, the map is as it was when the call began, and the
\* line still has the level that the read found.
C18_ToggleReadWriteAtomic ==
    \A t \in Tasks :
        BetweenReadAndWrite(t) =>
            /\ lock = t
            /\ \A u \in Tasks \ {t} :
                  /\ task[u].pc # "cmd"
                  /\ task[u].pc = "lock" => task[u].issued = <<>>
            /\ pin_states = task[t].pre
            /\ LevelState(line[task[t].cmd.pin]) = task[t].current

\* a toggle_pin of the fireplace pin has read its line and has its write in
\* flight while a HomeKit task for the same pin waits for the lock
C18_Witness ==
    \E t, u \in Tasks :
        /\ BetweenReadAndWrite(t) /\ task[t].cmd.name = "write"
        /\ task[u].kind = "hap" /\ task[u].pc = "lock"
        /\ task[u].pin = task[t].pin

\* get_pin_state agrees with get_all_pin_states on every pin
LookupAgreesWithSnapshot(map) ==
    LET all == get_all_pin_states(map)
    IN  \A p \in Pins \cup NamePins :
            IF p \in StatusPins(all)
            THEN \A i \in 1..Len(all) :
                    all[i].pin = p => all[i].state = get_pin_state(map, p)
            ELSE get_pin_state(map, p) = "Unknown"

\* C19: no step of a status, configuration or health request changes the
\* map or a line or issues a backend command, and the status answer is
\* get_all_pin_states of the map at that moment; the map changes only in the
\* step in which a set_pin or toggle_pin call returns Ok, by that call's
\* entry; and in every state get_pin_state(pin) is the state of pin's entry
\* in get_all_pin_states, Unknown if there is none.
C19_QueriesArePure ==
    [][ /\ \A t \in Tasks :
              ( /\ task'[t] # task[t]
                /\ {task[t].kind, task'[t].kind}
                      \cap {"status", "config", "health"} # {} )
              => /\ pin_states' = pin_states
                 /\ line' = line
                 /\ task'[t].issued = <<>>
                 /\ task'[t].cmd = NoCmd
                 /\ (task'[t].kind = "status" /\ task'[t].pc = "done") =>
                       task'[t].resp.pins = get_all_pin_states(pin_states)
        /\ pin_states' # pin_states =>
              \E t \in Tasks :
                  /\ IsWriteCall(task[t]) /\ task[t].pc = "cmd"
                  /\ task'[t].pc = "done" /\ task'[t].result.ok
                  /\ pin_states' = Insert(pin_states, task[t].pin,
                                          RecordedState(task'[t]))
        /\ LookupAgreesWithSnapshot(pin_states')
      ]_vars

\* a status request has been answered with a High and a Low entry
C19_Witness ==
    \E t \in Tasks :
        /\ task[t].kind = "status" /\ task[t].pc = "done"
        /\ {task[t].resp.pins[i].state : i \in 1..Len(task[t].resp.pins)}
              = {"High", "Low"}
        /\ task[t].resp.pins = get_all_pin_states(pin_states)

\* The action text of a request as received
RawAction(rec) ==
    IF rec.kind = "legacy" THEN rec.raw.cmd_action ELSE rec.raw.action

\* The state a valid control request asks for
RequestedState(rec) ==
    IF EqualIgnoringCase(RawAction(rec), S_ON) THEN "High" ELSE "Low"

\* Task t's legacy or control request has its set_pin return Ok in this step
SetSucceeds(t) ==
    /\ task[t].kind \in {"legacy", "control"} /\ task[t].pc = "cmd"
    /\ task'[t].pc = "done" /\ task'[t].result.ok

\* C20: a valid legacy or control request is not rejected; when its set_pin
\* succeeds the map becomes the map before with High recorded for the pin
\* if the action is ON and Low if it is OFF, and the line is driven to that
\* level, whatever was recorded or on the line before; so a request that
\* succeeds on a pin already recording its level leaves the map as it is.
C20_ExplicitLevel ==
    [][ \A t \in Tasks :
          /\ ( /\ task'[t].kind \in {"legacy", "control"}
               /\ ValidRequest(task'[t]) )
             => task'[t].resp.status # 400
          /\ SetSucceeds(t) =>
                LET rec == task'[t]
                    target == RequestedState(rec)
                IN  /\ ValidRequest(rec)
                    /\ pin_states' = Insert(pin_states, rec.pin, target)
                    /\ line'[physical_to_bcm(rec.pin).val]
                          = (IF target = "High" THEN 1 ELSE 0)
                    /\ get_pin_state(pin_states, rec.pin) = target
                          => pin_states' = pin_states
      ]_vars

\* an OFF request on the legacy endpoint has succeeded on a pin that
\* already recorded Low
C20_Witness ==
    \E t \in Returned_calls :
        /\ task[t].kind = "legacy" /\ task[t].result.ok
        /\ EqualIgnoringCase(task[t].raw.cmd_type, S_toggle)
        /\ EqualIgnoringCase(task[t].raw.cmd_action, S_OFF)
        /\ get_pin_state(task[t].pre, task[t].pin) = "Low"
        /\ pin_states = task[t].pre

\* Task t's request is rejected as invalid input in this step
RejectedNow(t) ==
    /\ task[t].pc = "idle"
    /\ task'[t].kind \in {"legacy", "control"}
    /\ ~ValidRequest(task'[t])

\* C21: the step that receives an invalid request answers it 400 at once,
\* whoever holds the lock: it leaves the lock, the map, the lines and every
\* other caller as they are, and the request has no controller call and no
\* backend command; and such a request can arrive and be answered in every
\* state in which a task is free, the lock held or not.
C21_RejectedBeforeLock ==
    [][ \A t \in Tasks :
          /\ RejectedNow(t) =>
                /\ task'[t].pc = "done"
                /\ task'[t].resp.status = 400 /\ task'[t].resp.error
                /\ task'[t].issued = <<>> /\ task'[t].cmd = NoCmd
                /\ ~task'[t].result.done
                /\ <<pin_states, line, lock>>' = <<pin_states, line, lock>>
                /\ \A u \in Tasks \ {t} : task'[u] = task[u]
          /\ task[t].pc = "idle" =>
                ENABLED HandleLegacy(t, S_Toggle, S_dim, 27)
          /\ task'[t].resp.status = 400 =>
                /\ task'[t].issued = <<>>
                /\ lock' # t
      ]_vars

\* a request has been answered 400 while another caller holds the lock
\* with its write command in flight
C21_Witness ==
    \E t, u \in Tasks :
        /\ task[t].pc = "done" /\ task[t].resp.status = 400
        /\ task[t].resp.message = "Invalid action. Expected ''ON'' or ''OFF''"
        /\ lock = u /\ task[u].pc = "cmd" /\ task[u].cmd.name = "write"

\* C22 as stated: every pin with a recorded state has the level that was
\* last successfully written to its line physical_to_bcm(pin), two pin
\* identifiers of one line included (the line holds the last level written
\* to it, nothing but the program driving it).
C22_CacheCoherent ==
    \A p \in DOMAIN pin_states :
        pin_states[p] = LevelState(line[physical_to_bcm(p).val])

\* The tasks spawned by the on_update callback of an accessory
HapTasks(acc) ==
    {t \in Tasks : task[t].kind = "hap" /\ task[t].pin = AccessoryPin(acc)}

\* No caller other than the accessory's tasks has run a command for its pin
OnlyHapOn(acc) ==
    \A t \in Tasks :
        (task[t].kind # "hap" /\ task[t].pin = AccessoryPin(acc))
            => task[t].issued = <<>>

\* C23 as stated: once all the tasks spawned by the changes of an accessory
\* have completed successfully (and nobody else has driven its pin), the
\* recorded state of the pin and the level of its line are those of the
\* value HomeKit reported last.
C23_LastChangeWins ==
    \A acc \in Accessories :
        ( /\ HapTasks(acc) # {}
          /\ \A t \in HapTasks(acc) :
                task[t].pc = "done" /\ task[t].result.ok
          /\ OnlyHapOn(acc) )
        => LET high == PhysicalHigh(hapOn[acc], config.active_low)
           IN  /\ get_pin_state(pin_states, AccessoryPin(acc))
                     = PinStateOf(high)
               /\ line[physical_to_bcm(AccessoryPin(acc)).val]
                     = WriteValue(high)

\* C24: no step removes an entry of the pin-state map: a pin with a
\* recorded High or Low state has one after every step, and the set of pins
\* that get_all_pin_states reports only grows.
C24_EntriesNeverRemoved ==
    [][ /\ DOMAIN pin_states \subseteq DOMAIN pin_states'
        /\ StatusPins(get_all_pin_states(pin_states))
              \subseteq StatusPins(get_all_pin_states(pin_states'))
        /\ \A p \in Pins :
              get_pin_state(pin_states, p) # "Unknown"
                  => get_pin_state(pin_states', p) \in {"High", "Low"}
      ]_vars

\* a set_pin has succeeded on a second pin and a later set_pin on the first
\* has failed; both pins are still recorded
C24_Witness ==
    \E t \in Returned_calls :
        /\ task[t].kind = "legacy" /\ IsGpioError(task[t].result)
        /\ task[t].pin \in DOMAIN task[t].pre
        /\ DOMAIN pin_states = {17, 27}
        /\ task[t].pin = 17

\* C25: with every backend command exiting and a fair Mutex, every caller
\* waiting for the lock gets to the end of its controller call, with Ok or
\* an error, and does not hold the lock then; the lock is held only by a
\* caller with a command in flight, so it is free after every return.
C25_EveryRequestCompletes ==
    /\ \A t \in Tasks :
          (task[t].pc = "lock")
              ~> (task[t].pc = "done" /\ task[t].result.done /\ lock # t)
    /\ [](\A t \in Tasks :
            /\ lock = t => task[t].pc = "cmd"
            /\ task[t].pc = "cmd" => lock = t)

\* a call has returned an error and left the lock free, with another
\* caller waiting for it
C25_Witness ==
    \E t, u \in Tasks :
        /\ task[t].pc = "done" /\ IsGpioError(task[t].result)
        /\ lock = 0
        /\ task[u].kind = "hap" /\ task[u].pc = "lock"

\* The read of the call has had both its commands exit zero
ReadExitedZero(rec) ==
    /\ rec.kind \in {"toggle", "shell_read"}
    /\ Len(rec.issued) >= 2
    /\ rec.issued[1].name = "mode_in" /\ rec.issued[1].outcome = "zero"
    /\ rec.issued[2].name = "read" /\ rec.issued[2].outcome = "zero"

\* The read of the call has returned an error
ReadFailed(rec) ==
    /\ rec.result.done /\ ~rec.result.ok
    /\ Len(rec.issued) <= 2

\* The text is an unsigned decimal number other than zero, with or without
\* a + sign
NonZeroNumber(s) ==
    LET ds == IF s # <<>> /\ Head(s) = "+" THEN Tail(s) ELSE s
    IN  /\ ds # <<>>
        /\ \A i \in 1..Len(ds) :
              ds[i] \in {"0", "1", "2", "3", "4", "5", "6", "7", "8", "9"}
        /\ \E i \in 1..Len(ds) : ds[i] # "0"

\* C26 as stated: in both gpio backends a read whose commands exit zero
\* yields High exactly when the trimmed output is "1" and Low for every
\* other output, never Unknown and never an error.
C26_HighOnlyOnOne ==
    \A t \in Tasks :
        ReadExitedZero(task[t]) =>
            /\ ~ReadFailed(task[t])
            /\ task[t].current =
                  (IF trim(task[t].stdout) = <<"1">> THEN "High" ELSE "Low")

\* C26 amended: a read whose commands exit zero never yields Unknown or an
\* error; in the gpio -g backend it yields High exactly when the trimmed
\* output is "1"; in the shell backend it yields High exactly when the
\* trimmed output is an unsigned decimal number other than zero ("2", "01",
\* "+1" included); every other output yields Low.
C26_ReadParse ==
    \A t \in Tasks :
        ReadExitedZero(task[t]) =>
            /\ ~ReadFailed(task[t])
            /\ task[t].kind = "toggle" =>
                  task[t].current =
                    (IF trim(task[t].stdout) = <<"1">> THEN "High" ELSE "Low")
            /\ task[t].kind = "shell_read" =>
                  /\ task[t].result.ok
                  /\ task[t].current =
                        (IF NonZeroNumber(trim(task[t].stdout))
                         THEN "High" ELSE "Low")

\* the shell backend has read High from the output "2", and the gpio -g
\* backend would read Low from it
C26_Witness ==
    \E t \in Tasks :
        /\ task[t].kind = "shell_read" /\ task[t].result.ok
        /\ trim(task[t].stdout) = <<"2">>
        /\ task[t].current = "High"
        /\ ParseRead(task[t].stdout) = "Low"

====
